---------------------------- MODULE Spec2Model ----------------------------
(***************************************************************************)
(* Model of server/storage-supabase.ts: the SupabaseStorage data-access    *)
(* class.  Every method issues one SQL statement through the query         *)
(* builder; the statement is executed atomically by the store.             *)
(*                                                                         *)
(* Encoding of values.                                                     *)
(*   - a table is a set of rows, a row is a record holding its columns;    *)
(*   - a nullable column holds Null (= <<>>) or a boxed value <<v>>;       *)
(*   - a JavaScript object (an insert or update payload) is a record whose *)
(*     DOMAIN is the set of keys it has: an absent key is a key not in the *)
(*     DOMAIN, an explicit null is the value Null;                         *)
(*   - a date input is <<kind, t>> with kind "string" (an ISO string) or   *)
(*     "date" (a Date object); a stored timestamp is the integer t;        *)
(*   - the result of a statement is the sequence of rows it returns;       *)
(*   - ret is the last call made and what it returned, calls the           *)
(*     updateCampus calls in flight, hist a history of the records the     *)
(*     write calls returned.                                               *)
(***************************************************************************)
EXTENDS Integers, Sequences, FiniteSets, TLC

VARIABLES users, campuses, events, chatSessions,
          nextUserId, nextCampusId, nextEventId, nextChatId,
          clock, calls, ret,
          hist

vars == <<users, campuses, events, chatSessions,
          nextUserId, nextCampusId, nextEventId, nextChatId,
          clock, calls, ret, hist>>

tables == <<users, campuses, events, chatSessions>>
serials == <<nextUserId, nextCampusId, nextEventId, nextChatId>>

-----------------------------------------------------------------------------
(* Values *)

Null == <<>>

Some(v) == <<v>>

\* JavaScript truthiness of payload[key]: an absent key (undefined) and null
\* are falsy; a Date object and a non-empty string are truthy.
Truthy(payload, key) == key \in DOMAIN payload /\ payload[key] # Null

\* new Date(x): the timestamp denoted by a date input, whatever its kind.
NewDate(x) == x[2]

\* The set S as a sequence in ascending order of key, a function from S to
\* the integers that gives no two elements the same value.
RECURSIVE SortAsc(_, _)
SortAsc(S, key) ==
    IF S = {} THEN <<>>
    ELSE LET m == CHOOSE x \in S : \A y \in S : key[x] <= key[y]
         IN  <<m>> \o SortAsc(S \ {m}, key)

Range(s) == {s[i] : i \in DOMAIN s}

\* The first n elements of s (LIMIT n).
Limit(s, n) == SubSeq(s, 1, IF n < Len(s) THEN n ELSE Len(s))

\* The rows of a table in the store's physical order (insertion order): what
\* a statement without ORDER BY returns.
Scan(table) == SortAsc(table, [r \in table |-> r.id])

-----------------------------------------------------------------------------
(* Time.  A timestamp counts ticks; a month has TicksPerMonth of them. *)

TicksPerMonth == 2

\* The timestamp of tick k of month m (1 = January) of year y, local time.
At(y, m, k) == (y * 12 + (m - 1)) * TicksPerMonth + k

\* Date.prototype.getFullYear
GetFullYear(t) == t \div (12 * TicksPerMonth)

\* The index (0 = January) of the month of t.
GetMonth(t) == (t \div TicksPerMonth) % 12

\* An optional key of a payload: absent, or present with one of vals.
Opt(key, vals) == {<<>>} \cup {[k \in {key} |-> v] : v \in vals}

-----------------------------------------------------------------------------
(* Initial state: the module is loaded, the tables are empty. *)

NoCall == [op |-> "none"]

Callers == {1, 2}

Init ==
    /\ users = {}
    /\ campuses = {}
    /\ events = {}
    /\ chatSessions = {}
    /\ nextUserId = 1
    /\ nextCampusId = 1
    /\ nextEventId = 1
    /\ nextChatId = 1
    /\ clock = 0
    /\ calls = [c \in Callers |-> [pc |-> "idle"]]
    /\ ret = NoCall
    /\ hist = {}

-----------------------------------------------------------------------------
(* The query builder: what the statements the methods build do. *)

\* insert(table).values(data).returning(): the row the store makes of data,
\* with the next value of the table's serial key.
InsertedRow(serial, data) == [id |-> serial] @@ data

\* A variant of SetRow that writes the whole row: a column the payload does
\* not name is written as null.
SetRowWhole(r, set) ==
    [f \in DOMAIN r |->
        IF f \in DOMAIN set THEN set[f] ELSE IF f = "id" THEN r.id ELSE Null]

\* update(table).set(set): the row with the columns named in set replaced.
\* The builder drops the keys of set whose value is undefined, so a key that
\* is not in DOMAIN set is not part of the statement.
SetRow(r, set) == [f \in DOMAIN r |-> IF f \in DOMAIN set THEN set[f] ELSE r[f]]

\* update(table).set(set).where(eq(table.id, id)): the table afterwards.
UpdateWhereId(table, id, set) ==
    {IF r.id = id THEN SetRow(r, set) ELSE r : r \in table}

\* ... .returning() of that statement: the rows it changed, as they are now.
UpdateReturning(table, id, set) ==
    Scan({SetRow(r, set) : r \in {x \in table : x.id = id}})

\* A timestamp that new Date() could not parse ("Invalid Date"), which the
\* driver refuses to send to the store.
InvalidDate == -1

HasInvalidDate(data) ==
    \/ "dateTime" \in DOMAIN data /\ data.dateTime = InvalidDate
    \/ "endDateTime" \in DOMAIN data /\ data.endDateTime = Some(InvalidDate)

-----------------------------------------------------------------------------
(* User operations *)

GetUserResult(id) == Limit(Scan({r \in users : r.id = id}), 1)

getUser(id) ==
    /\ ret' = [op |-> "getUser", id |-> id, rows |-> GetUserResult(id)]
    /\ UNCHANGED <<tables, serials, clock, calls>>

createUser(userData) ==
    LET row == InsertedRow(nextUserId, userData) IN
    /\ users' = users \cup {row}
    /\ nextUserId' = nextUserId + 1
    /\ ret' = [op |-> "createUser", rows |-> <<row>>]
    /\ UNCHANGED <<campuses, events, chatSessions,
                   nextCampusId, nextEventId, nextChatId, clock, calls>>

-----------------------------------------------------------------------------
(* Campus operations *)

GetCampusResult(id) == Limit(Scan({r \in campuses : r.id = id}), 1)

getCampus(id) ==
    /\ ret' = [op |-> "getCampus", id |-> id, rows |-> GetCampusResult(id)]
    /\ UNCHANGED <<tables, serials, clock, calls>>

createCampus(campusData) ==
    LET row == InsertedRow(nextCampusId, campusData) IN
    /\ campuses' = campuses \cup {row}
    /\ nextCampusId' = nextCampusId + 1
    /\ ret' = [op |-> "createCampus", rows |-> <<row>>]
    /\ UNCHANGED <<users, events, chatSessions,
                   nextUserId, nextEventId, nextChatId, clock, calls>>

\* A variant of WrittenRow that merges the payload into the row as it was
\* when the call was issued (a copy kept by the caller).
WrittenRowFromCopy(r, copy, set) ==
    IF copy = <<>> THEN SetRow(r, set) ELSE SetRow(copy[1], set)

\* The row the update statement writes in place of r: the statement names
\* only the payload's columns and is applied to the row as stored when it
\* executes; copy, the row as it was when the call was issued, is not used.
WrittenRow(r, copy, set) == SetRow(r, set)

\* The one statement of updateCampus, as the store executes it (atomically).
\* set(updates) with nothing to set is refused by the builder: the call
\* throws and no statement reaches the store.
UpdateCampusStatement(id, updates, copy) ==
    IF DOMAIN updates = {}
    THEN /\ ret' = [op |-> "updateCampus", id |-> id, updates |-> updates,
                    threw |-> TRUE, rows |-> <<>>]
         /\ UNCHANGED campuses
    ELSE LET written == {WrittenRow(r, copy, updates) :
                            r \in {x \in campuses : x.id = id}}
         IN  /\ campuses' = {r \in campuses : r.id # id} \cup written
             /\ ret' = [op |-> "updateCampus", id |-> id, updates |-> updates,
                        threw |-> FALSE, rows |-> Scan(written)]

\* updateCampus called and awaited with no other call in between.
updateCampus(id, updates) ==
    /\ UpdateCampusStatement(id, updates, GetCampusResult(id))
    /\ UNCHANGED <<users, events, chatSessions, serials, clock, calls>>

(* updateCampus as concurrent callers see it: the call is issued (the      *)
(* statement is sent and the caller suspends), the store executes the      *)
(* statement, and the caller resumes with the result.                      *)

IssueUpdateCampus(c, id, updates) ==
    /\ calls[c].pc = "idle"
    /\ calls' = [calls EXCEPT ![c] =
                    [pc |-> "issued", id |-> id, updates |-> updates,
                     copy |-> GetCampusResult(id),
                     overlaps |-> \E o \in Callers \ {c} : calls[o].pc = "issued"]]
    /\ UNCHANGED <<tables, serials, clock, ret>>

ExecUpdateCampus(c) ==
    /\ calls[c].pc = "issued"
    /\ UpdateCampusStatement(calls[c].id, calls[c].updates, calls[c].copy)
    /\ calls' = [calls EXCEPT ![c].pc = "done"]
    /\ UNCHANGED <<users, events, chatSessions, serials, clock>>

ReturnUpdateCampus(c) ==
    /\ calls[c].pc = "done"
    /\ calls' = [calls EXCEPT ![c].pc = "returned"]
    /\ UNCHANGED <<tables, serials, clock, ret>>

-----------------------------------------------------------------------------
(* Event operations *)

\* A variant of GetEventResult whose statement has no where clause.
GetEventResultNoWhere(id) == Limit(Scan(events), 1)

GetEventResult(id) == Limit(Scan({r \in events : r.id = id}), 1)

getEvent(id) ==
    /\ ret' = [op |-> "getEvent", id |-> id, rows |-> GetEventResult(id)]
    /\ UNCHANGED <<tables, serials, clock, calls>>

\* processedData of createEvent: the payload with dateTime coerced and
\* endDateTime coerced when truthy, null otherwise.
processedData(eventData) ==
    [f \in DOMAIN eventData \cup {"dateTime", "endDateTime"} |->
        CASE f = "dateTime" -> NewDate(eventData.dateTime)
          [] f = "endDateTime" ->
                IF Truthy(eventData, "endDateTime")
                THEN Some(NewDate(eventData.endDateTime))
                ELSE Null
          [] OTHER -> eventData[f]]

createEvent(eventData) ==
    LET row == InsertedRow(nextEventId, processedData(eventData)) IN
    /\ IF HasInvalidDate(processedData(eventData))
       THEN /\ ret' = [op |-> "createEvent", threw |-> TRUE, rows |-> <<>>]
            /\ UNCHANGED <<events, nextEventId>>
       ELSE /\ events' = events \cup {row}
            /\ nextEventId' = nextEventId + 1
            /\ ret' = [op |-> "createEvent", threw |-> FALSE, rows |-> <<row>>]
    /\ UNCHANGED <<users, campuses, chatSessions,
                   nextUserId, nextCampusId, nextChatId, clock, calls>>

\* A variant of processedUpdates that, as createEvent does, gives endDateTime
\* null when the payload has none.
ProcessedUpdatesNulling(updates) ==
    LET kept == (DOMAIN updates \ {"dateTime"}) \cup {"endDateTime"}
                    \cup {f \in {"dateTime"} : Truthy(updates, f)}
    IN  [f \in kept |->
            CASE f = "dateTime" -> NewDate(updates.dateTime)
              [] f = "endDateTime" ->
                    IF Truthy(updates, "endDateTime")
                    THEN Some(NewDate(updates.endDateTime))
                    ELSE Null
              [] OTHER -> updates[f]]

\* processedUpdates of updateEvent, as set() reads it: the keys of updates,
\* and dateTime and endDateTime only when the payload's value is truthy
\* (otherwise the key holds undefined, which set() drops).
processedUpdates(updates) ==
    LET dates == {"dateTime", "endDateTime"}
        kept  == (DOMAIN updates \ dates) \cup {f \in dates : Truthy(updates, f)}
    IN  [f \in kept |->
            CASE f = "dateTime" -> NewDate(updates.dateTime)
              [] f = "endDateTime" -> Some(NewDate(updates.endDateTime))
              [] OTHER -> updates[f]]

updateEvent(id, updates) ==
    /\ IF \/ DOMAIN processedUpdates(updates) = {}
          \/ HasInvalidDate(processedUpdates(updates))
       THEN /\ ret' = [op |-> "updateEvent", id |-> id, updates |-> updates,
                       threw |-> TRUE, rows |-> <<>>]
            /\ UNCHANGED events
       ELSE /\ events' = UpdateWhereId(events, id, processedUpdates(updates))
            /\ ret' = [op |-> "updateEvent", id |-> id, updates |-> updates,
                       threw |-> FALSE,
                       rows |-> UpdateReturning(events, id,
                                                processedUpdates(updates))]
    /\ UNCHANGED <<users, campuses, chatSessions, serials, clock, calls>>

\* delete(events).where(eq(events.id, id)).returning(): the rows removed.
DeleteReturning(id) == Scan({r \in events : r.id = id})

\* A variant of DeleteResult that does not look at the number of rows.
DeleteResultAlways(result) == Len(result) >= 0

\* The boolean deleteEvent makes of the returned rows.
DeleteResult(result) == Len(result) > 0

deleteEvent(id) ==
    LET result == DeleteReturning(id) IN
    /\ events' = events \ Range(result)
    /\ ret' = [op |-> "deleteEvent", id |-> id, rows |-> result,
               value |-> DeleteResult(result)]
    /\ UNCHANGED <<users, campuses, chatSessions, serials, clock, calls>>

-----------------------------------------------------------------------------
(* History of the calls, kept beside the program to state what a lookup    *)
(* should return: for each row written and not deleted, the record its     *)
(* create call returned and the record the last create or update call on   *)
(* it returned.                                                            *)

TableOf(op) ==
    CASE op \in {"createUser"} -> "users"
      [] op \in {"createCampus", "updateCampus"} -> "campuses"
      [] op \in {"createEvent", "updateEvent", "deleteEvent"} -> "events"
      [] OTHER -> "none"

Observe(h, r) ==
    IF TableOf(r.op) = "none" \/ r.rows = <<>> THEN h
    ELSE LET t   == TableOf(r.op)
             row == r.rows[1]
             old == {e \in h : e.tbl = t /\ e.id = row.id}
         IN  CASE r.op \in {"createUser", "createCampus", "createEvent"} ->
                    h \cup {[tbl |-> t, id |-> row.id,
                             created |-> row, latest |-> row]}
               [] r.op \in {"updateCampus", "updateEvent"} ->
                    (h \ old) \cup {[e EXCEPT !.latest = row] : e \in old}
               [] OTHER -> h \ old

-----------------------------------------------------------------------------
(* Specification SpecCrud: create, update, delete and lookup by id on the  *)
(* three tables with a lookup by id.                                       *)

MaxUsers == 2
MaxCampuses == 2
MaxEvents == 2

T1 == At(2024, 1, 0)
T2 == At(2024, 1, 1)

CrudUserInputs == {[email |-> "a@x"], [email |-> "b@x"]}
CrudCampusInputs == {[name |-> "North", location |-> Null]}
CrudCampusUpdates == {[name |-> "South"]}
CrudEventInputs ==
    {[campusId |-> 1, programType |-> "workshop",
      dateTime |-> <<"string", T1>>, participantCount |-> Null]}
CrudEventUpdates == {[participantCount |-> Some(0)]}

\* The history is kept at every call.
Recorded == hist' = Observe(hist, ret')

CrudNext ==
    \/ \E d \in CrudUserInputs :
          nextUserId <= MaxUsers /\ createUser(d) /\ Recorded
    \/ \E id \in 1..(MaxUsers + 1) : getUser(id) /\ Recorded
    \/ \E d \in CrudCampusInputs :
          nextCampusId <= MaxCampuses /\ createCampus(d) /\ Recorded
    \/ \E id \in 1..(MaxCampuses + 1), u \in CrudCampusUpdates :
          updateCampus(id, u) /\ Recorded
    \/ \E id \in 1..(MaxCampuses + 1) : getCampus(id) /\ Recorded
    \/ \E d \in CrudEventInputs :
          nextEventId <= MaxEvents /\ createEvent(d) /\ Recorded
    \/ \E id \in 1..(MaxEvents + 1), u \in CrudEventUpdates :
          updateEvent(id, u) /\ Recorded
    \/ \E id \in 1..(MaxEvents + 1) : deleteEvent(id) /\ Recorded
    \/ \E id \in 1..(MaxEvents + 1) : getEvent(id) /\ Recorded

SpecCrud == Init /\ [][CrudNext]_vars

IsLookup == ret.op \in {"getUser", "getCampus", "getEvent"}

LookedUp ==
    LET t == CASE ret.op = "getUser" -> "users"
               [] ret.op = "getCampus" -> "campuses"
               [] OTHER -> "events"
    IN  {e \in hist : e.tbl = t /\ e.id = ret.id}

\* C1 (as stated): a lookup by id returns the exact record the create call
\* with that id returned, or undefined if the id was never created or has
\* since been deleted; the record returned always has the id asked for.
C1_LookupReturnsCreated ==
    IsLookup =>
        /\ IF LookedUp = {} THEN ret.rows = <<>>
           ELSE \E e \in LookedUp : ret.rows = <<e.created>>
        /\ \A i \in DOMAIN ret.rows : ret.rows[i].id = ret.id

\* C1 (amended): a lookup by id returns the record created with that id as
\* the last update call on it left it (the record the last create or update
\* call with that id returned), or undefined if the id was never created or
\* has since been deleted; the record returned always has the id asked for.
C1_LookupReturnsLatest ==
    IsLookup =>
        /\ IF LookedUp = {} THEN ret.rows = <<>>
           ELSE \E e \in LookedUp : ret.rows = <<e.latest>>
        /\ \A i \in DOMAIN ret.rows : ret.rows[i].id = ret.id

\* Witness of C1: a lookup of an event that was created and later updated
\* returns the updated record, while another event has been deleted.
C1_Witness ==
    /\ ret.op = "getEvent"
    /\ ret.rows # <<>>
    /\ \E e \in LookedUp : e.latest # e.created /\ ret.rows = <<e.latest>>
    /\ \E id \in 1..MaxEvents :
          id < nextEventId /\ id # ret.id /\ ~(\E r \in events : r.id = id)

-----------------------------------------------------------------------------
(* Specification SpecEvent: the event operations, with payloads that vary  *)
(* every column an update can name.                                        *)

EventCreateInputs ==
    {[campusId |-> 1, programType |-> "workshop", dateTime |-> d,
      participantCount |-> Some(5)] @@ e :
        d \in {<<"string", T1>>, <<"string", InvalidDate>>},
        e \in Opt("endDateTime", {Null, <<"date", T2>>})}

EventUpdates ==
    {a @@ b @@ c :
        a \in Opt("dateTime", {<<"date", T2>>}),
        b \in Opt("endDateTime", {Null, <<"string", T2>>}),
        c \in Opt("participantCount", {Some(0)})}
    \cup {[endDateTime |-> <<"string", InvalidDate>>]}

EventNext ==
    \/ \E d \in EventCreateInputs :
          nextEventId <= MaxEvents /\ createEvent(d) /\ UNCHANGED hist
    \/ \E id \in 1..(MaxEvents + 1), u \in EventUpdates :
          updateEvent(id, u) /\ UNCHANGED hist
    \/ \E id \in 1..(MaxEvents + 1) : deleteEvent(id) /\ UNCHANGED hist
    \/ \E id \in 1..(MaxEvents + 1) : getEvent(id) /\ UNCHANGED hist

SpecEvent == Init /\ [][EventNext]_vars

HasEvent(table, id) == \E r \in table : r.id = id

\* C2: deleteEvent(id) returns true exactly when a row with that id exists,
\* and then removes it; a removed id never exists again, so every later call
\* for it returns false; a call that returns false leaves the events as they
\* were.
C2_DeleteEventOnce ==
    [][/\ ret'.op = "deleteEvent" =>
            /\ ret'.value = HasEvent(events, ret'.id)
            /\ ~HasEvent(events', ret'.id)
            /\ ~ret'.value => events' = events
            /\ \A r \in events : r.id # ret'.id => r \in events'
       /\ \A id \in 1..(MaxEvents + 1) :
            (id < nextEventId /\ ~HasEvent(events, id)) => ~HasEvent(events', id)
      ]_vars

\* Witness of C2: a second deleteEvent call for an id that existed and was
\* deleted has returned false.
C2_Witness ==
    /\ ret.op = "deleteEvent"
    /\ ret.value = FALSE
    /\ ret.id < nextEventId
    /\ ~HasEvent(events, ret.id)
    /\ events # {}

\* C3: updateEvent leaves every column that is absent from the payload as it
\* was (dateTime and endDateTime included, never nulled), and leaves every
\* other event row as it was.
C3_UpdateEventFrame ==
    [][ret'.op = "updateEvent" =>
            /\ Cardinality(events') = Cardinality(events)
            /\ \A r \in events :
                  IF r.id # ret'.id THEN r \in events'
                  ELSE \E n \in events' :
                          /\ n.id = r.id
                          /\ \A f \in DOMAIN r :
                                f \notin DOMAIN ret'.updates => n[f] = r[f]
      ]_vars

\* Witness of C3: an update that names neither date has returned the row,
\* whose endDateTime is still set, while another event is stored.
C3_Witness ==
    /\ ret.op = "updateEvent"
    /\ ~ret.threw
    /\ DOMAIN ret.updates = {"participantCount"}
    /\ ret.rows # <<>>
    /\ ret.rows[1].endDateTime = Some(T2)
    /\ ret.rows[1].dateTime = T1
    /\ ret.rows[1] \in events
    /\ Cardinality(events) = 2

-----------------------------------------------------------------------------
(* Specification SpecCampus: the campus operations. *)

CampusCreateInputs ==
    {[name |-> n, location |-> l] :
        n \in {"North", "South"}, l \in {Null, Some("Hill")}}

CampusUpdates ==
    {a @@ b : a \in Opt("name", {"East"}),
              b \in Opt("location", {Null, Some("Dale")})}

CampusNext ==
    \/ \E d \in CampusCreateInputs :
          nextCampusId <= MaxCampuses /\ createCampus(d) /\ UNCHANGED hist
    \/ \E id \in 1..(MaxCampuses + 1), u \in CampusUpdates :
          updateCampus(id, u) /\ UNCHANGED hist
    \/ \E id \in 1..(MaxCampuses + 1) : getCampus(id) /\ UNCHANGED hist

SpecCampus == Init /\ [][CampusNext]_vars

\* C5: updateCampus(id, {name: X}) on an existing campus sets its name to X,
\* keeps its other columns and every other campus row, and returns the
\* updated record; when no row has the id it returns undefined and the
\* campuses are unchanged.
C5_UpdateCampusName ==
    [][(ret'.op = "updateCampus" /\ DOMAIN ret'.updates = {"name"}) =>
            LET old == {r \in campuses : r.id = ret'.id} IN
            IF old = {}
            THEN ret'.rows = <<>> /\ campuses' = campuses
            ELSE \E r \in old :
                    LET n == [r EXCEPT !.name = ret'.updates.name] IN
                    /\ campuses' = (campuses \ {r}) \cup {n}
                    /\ ret'.rows = <<n>>
      ]_vars

\* Witness of C5: a name-only update has returned the renamed campus, whose
\* location is still set, while another campus is stored.
C5_Witness ==
    /\ ret.op = "updateCampus"
    /\ DOMAIN ret.updates = {"name"}
    /\ ret.rows # <<>>
    /\ ret.rows[1].name = "East"
    /\ ret.rows[1].location = Some("Hill")
    /\ ret.rows[1] \in campuses
    /\ \E r \in campuses : r.id # ret.id /\ r.name # "East"

-----------------------------------------------------------------------------
(* Specification SpecPartial: the two partial-update operations, with      *)
(* payloads that set a column to null or to zero.                          *)

PartialCampusInputs == {[name |-> "North", location |-> Some("Hill")]}

PartialCampusUpdates ==
    {[location |-> Null], [name |-> "East"], [name |-> "East", location |-> Null]}

PartialEventInputs ==
    {[campusId |-> 1, programType |-> "workshop", dateTime |-> <<"string", T1>>,
      endDateTime |-> <<"date", T2>>, participantCount |-> Some(5)]}

PartialEventUpdates ==
    {[participantCount |-> Some(0)], [participantCount |-> Null],
     [endDateTime |-> Null],
     [endDateTime |-> Null, participantCount |-> Some(0)]}

PartialNext ==
    \/ \E d \in PartialCampusInputs :
          nextCampusId <= MaxCampuses /\ createCampus(d) /\ UNCHANGED hist
    \/ \E id \in 1..MaxCampuses, u \in PartialCampusUpdates :
          updateCampus(id, u) /\ UNCHANGED hist
    \/ \E d \in PartialEventInputs :
          nextEventId <= MaxEvents /\ createEvent(d) /\ UNCHANGED hist
    \/ \E id \in 1..MaxEvents, u \in PartialEventUpdates :
          updateEvent(id, u) /\ UNCHANGED hist

SpecPartial == Init /\ [][PartialNext]_vars

\* The columns that may hold null.
Nullable == {"location", "endDateTime", "participantCount"}

\* What a partial update of row r with payload u should leave in row n: a
\* column explicitly given null (or zero) holds null (or zero), a column
\* absent from the payload holds what it held.
ExplicitWritten(r, n, u) ==
    \A f \in (DOMAIN r \ {"id"}) :
        /\ (f \in Nullable /\ f \in DOMAIN u /\ u[f] = Null) => n[f] = Null
        /\ (f = "participantCount" /\ f \in DOMAIN u /\ u[f] = Some(0))
                => n[f] = Some(0)
        /\ f \notin DOMAIN u => n[f] = r[f]

\* C4: in updateCampus and updateEvent a column explicitly set to null or to
\* zero in the payload is written to the stored row, and an absent column is
\* left unchanged.
C4_ExplicitNullOrZeroWritten ==
    [][/\ (ret'.op = "updateCampus" /\ ~ret'.threw) =>
            \A r \in campuses : r.id = ret'.id =>
                \E n \in campuses' : n.id = r.id /\ ExplicitWritten(r, n, ret'.updates)
       /\ (ret'.op = "updateEvent" /\ ~ret'.threw) =>
            \A r \in events : r.id = ret'.id =>
                \E n \in events' : n.id = r.id /\ ExplicitWritten(r, n, ret'.updates)
      ]_vars

-----------------------------------------------------------------------------
(* Ordered queries.  Among rows with equal sort keys the order is the      *)
(* store's choice; two choices are modelled, by ascending and by           *)
(* descending row id.                                                      *)

TieBreaks == {"asc", "desc"}

\* The rows of S ordered by ascending key[r], ties as tb says.
OrderByAsc(S, key, tb) ==
    LET w == 1 + Cardinality(S) + (IF S = {} THEN 0
                 ELSE CHOOSE m \in {r.id : r \in S} : \A r \in S : r.id <= m)
    IN  SortAsc(S, [r \in S |->
                      key[r] * w + (IF tb = "asc" THEN r.id ELSE w - r.id)])

\* The rows of S ordered by descending key[r], ties as tb says.
OrderByDesc(S, key, tb) == OrderByAsc(S, [r \in S |-> 0 - key[r]], tb)

\* A variant of InDateRange with an exclusive lower bound (gt for gte).
InDateRangeExclusive(t, startDate, endDate) == t > startDate /\ t <= endDate

\* and(gte(events.dateTime, startDate), lte(events.dateTime, endDate))
InDateRange(t, startDate, endDate) == t >= startDate /\ t <= endDate

getEventsInDateRange(campusId, startDate, endDate, tb) ==
    LET matching == {r \in events : /\ r.campusId = campusId
                                    /\ InDateRange(r.dateTime, startDate, endDate)}
    IN
    /\ ret' = [op |-> "getEventsInDateRange", campusId |-> campusId,
               startDate |-> startDate, endDate |-> endDate,
               rows |-> OrderByAsc(matching, [r \in matching |-> r.dateTime], tb)]
    /\ UNCHANGED <<tables, serials, clock, calls>>

-----------------------------------------------------------------------------
(* Specification SpecRange: events of two campuses at a few times, and     *)
(* getEventsInDateRange over them.                                         *)

MaxRangeEvents == 4

RangeTimes == {At(2024, 1, 0), At(2024, 1, 1), At(2024, 2, 0)}

RangeEventInputs ==
    {[campusId |-> c, programType |-> "workshop", dateTime |-> <<"string", t>>,
      participantCount |-> Null] : c \in {1, 2}, t \in RangeTimes}

RangeNext ==
    \/ \E d \in RangeEventInputs :
          nextEventId <= MaxRangeEvents /\ createEvent(d) /\ UNCHANGED hist
    \/ \E c \in {1, 2}, s \in RangeTimes, e \in RangeTimes, tb \in TieBreaks :
          getEventsInDateRange(c, s, e, tb) /\ UNCHANGED hist

SpecRange == Init /\ [][RangeNext]_vars

\* C6: getEventsInDateRange(campusId, start, end) returns exactly the events
\* of that campus whose dateTime is in [start, end], both ends included, each
\* once, in ascending order of dateTime.
C6_DateRangeExact ==
    ret.op = "getEventsInDateRange" =>
        LET expected == {r \in events : /\ r.campusId = ret.campusId
                                        /\ ret.startDate <= r.dateTime
                                        /\ r.dateTime <= ret.endDate}
        IN  /\ Range(ret.rows) = expected
            /\ Len(ret.rows) = Cardinality(expected)
            /\ \A i, j \in DOMAIN ret.rows :
                  i < j => ret.rows[i].dateTime <= ret.rows[j].dateTime

\* Witness of C6: a query has returned two events, the first at exactly start
\* and the second at exactly end, while the campus has an event before start
\* and another campus has an event in the range.
C6_Witness ==
    /\ ret.op = "getEventsInDateRange"
    /\ ret.startDate < ret.endDate
    /\ Len(ret.rows) = 2
    /\ ret.rows[1].dateTime = ret.startDate
    /\ ret.rows[2].dateTime = ret.endDate
    /\ \E r \in events : r.campusId = ret.campusId /\ r.dateTime < ret.startDate
    /\ \E r \in events : r.campusId # ret.campusId /\ r.dateTime = ret.startDate

-----------------------------------------------------------------------------
(* Analytics *)

\* The decimal digits of n, as the driver sends a count.
RECURSIVE Decimal(_)
Decimal(n) == IF n < 10 THEN <<n>> ELSE Decimal(n \div 10) \o <<n % 10>>

\* Number(s) of a string of decimal digits.
RECURSIVE Number(_)
Number(s) ==
    IF Len(s) = 0 THEN 0
    ELSE 10 * Number(SubSeq(s, 1, Len(s) - 1)) + s[Len(s)]

\* A variant of GroupCount that counts the rows of every campus.
GroupCountAllCampuses(campusId, type) ==
    Decimal(Cardinality({r \in events : r.programType = type}))

\* count() of one group of the statement: the rows of the campus with the
\* group's programType.
GroupCount(campusId, type) ==
    Decimal(Cardinality({r \in events : /\ r.campusId = campusId
                                        /\ r.programType = type}))

\* select programType, count() ... where campusId ... group by programType:
\* one row for each programType among the campus's rows, here in the order
\* in which the types first occur.
GroupByProgramType(campusId) ==
    LET rows  == {r \in events : r.campusId = campusId}
        first == {r \in rows :
                    \A x \in rows : x.programType = r.programType => r.id <= x.id}
    IN  [i \in 1..Cardinality(first) |->
            [type  |-> Scan(first)[i].programType,
             count |-> GroupCount(campusId, Scan(first)[i].programType)]]

getEventTypeDistribution(campusId) ==
    LET result == GroupByProgramType(campusId) IN
    /\ ret' = [op |-> "getEventTypeDistribution", campusId |-> campusId,
               rows |-> [i \in DOMAIN result |->
                            [type  |-> result[i].type,
                             count |-> Number(result[i].count)]]]
    /\ UNCHANGED <<tables, serials, clock, calls>>

\* toLocaleString('default', {month: 'long'}) of a month index.
MonthNames ==
    <<"January", "February", "March", "April", "May", "June", "July",
      "August", "September", "October", "November", "December">>

MonthName(t) == MonthNames[GetMonth(t) + 1]

\* x || 0 of a nullable number.
OrZero(x) == IF x = Null \/ x = Some(0) THEN 0 ELSE x[1]

\* A variant of Accumulate that stores the event's count instead of adding it.
AccumulateOverwrite(prev, participantCount) == OrZero(participantCount)

\* (acc[month] || 0) + (event.participantCount || 0)
Accumulate(prev, participantCount) == prev + OrZero(participantCount)

\* One step of the reduce: acc with the event added under its month's name.
\* acc is the object as the sequence of its entries, in insertion order.
ReduceStep(acc, event) ==
    LET month == MonthName(event.dateTime)
        at    == {i \in DOMAIN acc : acc[i].month = month}
    IN  IF at = {}
        THEN Append(acc, [month |-> month,
                          participants |-> Accumulate(0, event.participantCount)])
        ELSE [i \in DOMAIN acc |->
                IF i \in at
                THEN [acc[i] EXCEPT !.participants =
                        Accumulate(acc[i].participants, event.participantCount)]
                ELSE acc[i]]

\* dbEvents.filter(...).reduce(..., {})
RECURSIVE monthlyData(_, _, _)
monthlyData(acc, dbEvents, year) ==
    IF dbEvents = <<>> THEN acc
    ELSE monthlyData(
            IF GetFullYear(Head(dbEvents).dateTime) = year
            THEN ReduceStep(acc, Head(dbEvents)) ELSE acc,
            Tail(dbEvents), year)

getMonthlyParticipation(campusId, year) ==
    LET dbEvents == Scan({r \in events : r.campusId = campusId}) IN
    /\ ret' = [op |-> "getMonthlyParticipation", campusId |-> campusId,
               year |-> year, rows |-> monthlyData(<<>>, dbEvents, year)]
    /\ UNCHANGED <<tables, serials, clock, calls>>

-----------------------------------------------------------------------------
(* Specification SpecTypes: events of two campuses and two program types,  *)
(* and getEventTypeDistribution over them.                                 *)

MaxTypeEvents == 5

TypeEventInputs ==
    {[campusId |-> c, programType |-> p, dateTime |-> <<"date", T1>>,
      participantCount |-> Null] : c \in {1, 2}, p \in {"workshop", "seminar"}}

TypesNext ==
    \/ \E d \in TypeEventInputs :
          nextEventId <= MaxTypeEvents /\ createEvent(d) /\ UNCHANGED hist
    \/ \E c \in {1, 2, 3} : getEventTypeDistribution(c) /\ UNCHANGED hist

SpecTypes == Init /\ [][TypesNext]_vars

RECURSIVE SumCounts(_)
SumCounts(s) == IF s = <<>> THEN 0 ELSE Head(s).count + SumCounts(Tail(s))

\* C9: getEventTypeDistribution(campusId) has exactly one entry for each
\* program type that occurs among the campus's events and none for any other
\* type; an entry's count is the number of the campus's events of its type,
\* so the counts sum to the number of the campus's events.
C9_TypeDistribution ==
    ret.op = "getEventTypeDistribution" =>
        LET mine  == {r \in events : r.campusId = ret.campusId}
            types == {r.programType : r \in mine}
        IN  /\ {ret.rows[i].type : i \in DOMAIN ret.rows} = types
            /\ Len(ret.rows) = Cardinality(types)
            /\ \A i \in DOMAIN ret.rows :
                  ret.rows[i].count =
                      Cardinality({r \in mine : r.programType = ret.rows[i].type})
            /\ SumCounts(ret.rows) = Cardinality(mine)

\* Witness of C9: three workshops and two seminars are counted as such.
C9_Witness ==
    /\ ret.op = "getEventTypeDistribution"
    /\ Len(ret.rows) = 2
    /\ \E i, j \in DOMAIN ret.rows :
          /\ ret.rows[i] = [type |-> "workshop", count |-> 3]
          /\ ret.rows[j] = [type |-> "seminar", count |-> 2]

-----------------------------------------------------------------------------
(* Specification SpecMonthly: events in two months of one year and in the  *)
(* next year, and getMonthlyParticipation over them.                       *)

MaxMonthlyEvents == 3

MonthlyEventInputs ==
    {[campusId |-> 1, programType |-> "workshop", dateTime |-> <<"string", t>>,
      participantCount |-> p] :
        t \in {At(2024, 3, 0), At(2024, 3, 1), At(2024, 4, 0)},
        p \in {Null, Some(5), Some(10)}}
    \cup {[campusId |-> 1, programType |-> "workshop",
           dateTime |-> <<"date", At(2025, 3, 0)>>, participantCount |-> Some(5)],
          [campusId |-> 2, programType |-> "workshop",
           dateTime |-> <<"date", At(2024, 3, 0)>>, participantCount |-> Some(10)]}

MonthlyNext ==
    \/ \E d \in MonthlyEventInputs :
          nextEventId <= MaxMonthlyEvents /\ createEvent(d) /\ UNCHANGED hist
    \/ \E c \in {1, 2}, y \in {2024, 2025} :
          getMonthlyParticipation(c, y) /\ UNCHANGED hist

SpecMonthly == Init /\ [][MonthlyNext]_vars

RECURSIVE SumParticipants(_)
SumParticipants(S) ==
    IF S = {} THEN 0
    ELSE LET r == CHOOSE x \in S : TRUE
         IN  (IF r.participantCount = Null THEN 0 ELSE r.participantCount[1])
                + SumParticipants(S \ {r})

\* C7: getMonthlyParticipation(campusId, year) has exactly one entry for each
\* month in which the campus has an event dated in that year and no other
\* entry; an entry's participants is the sum of participantCount over the
\* campus's events of that month and year, null counted as zero.
C7_MonthlyParticipation ==
    ret.op = "getMonthlyParticipation" =>
        LET mine   == {r \in events : /\ r.campusId = ret.campusId
                                      /\ GetFullYear(r.dateTime) = ret.year}
            months == {GetMonth(r.dateTime) : r \in mine}
        IN  /\ Len(ret.rows) = Cardinality(months)
            /\ \A m \in months :
                  \E i \in DOMAIN ret.rows :
                      /\ ret.rows[i].month = MonthNames[m + 1]
                      /\ ret.rows[i].participants =
                            SumParticipants({r \in mine : GetMonth(r.dateTime) = m})

\* Witness of C7: March events of 10 and 5 participants give the single
\* entry March: 15, while the campus has an event in another year.
C7_Witness ==
    /\ ret.op = "getMonthlyParticipation"
    /\ ret.year = 2024
    /\ ret.rows = <<[month |-> "March", participants |-> 15]>>
    /\ \E r \in events : r.campusId = ret.campusId /\ GetFullYear(r.dateTime) = 2025

-----------------------------------------------------------------------------
(* Chat operations *)

\* The store stamps a new session with the current time, which never goes
\* back: createdAt is the last stamp or a later one.
createChatSession(chatData, createdAt) ==
    LET row == InsertedRow(nextChatId, chatData @@ [createdAt |-> createdAt]) IN
    /\ createdAt >= clock
    /\ chatSessions' = chatSessions \cup {row}
    /\ nextChatId' = nextChatId + 1
    /\ clock' = createdAt
    /\ ret' = [op |-> "createChatSession", rows |-> <<row>>]
    /\ UNCHANGED <<users, campuses, events,
                   nextUserId, nextCampusId, nextEventId, calls>>

DefaultChatLimit == 10

\* A variant of EffectiveLimit with the default of getTopRatedEvents.
EffectiveLimitTopRated(args) ==
    IF "limit" \in DOMAIN args THEN args.limit ELSE 5

\* limit: number = 10: the argument, or the default when none is given.
EffectiveLimit(args) ==
    IF "limit" \in DOMAIN args THEN args.limit ELSE DefaultChatLimit

\* args is the argument list: userId, and limit when one is given.
getChatHistory(args, tb) ==
    LET mine == {r \in chatSessions : r.userId = args.userId} IN
    /\ ret' = [op |-> "getChatHistory", args |-> args,
               rows |-> Limit(OrderByDesc(mine, [r \in mine |-> r.createdAt], tb),
                              EffectiveLimit(args))]
    /\ UNCHANGED <<tables, serials, clock, calls>>

-----------------------------------------------------------------------------
(* Specification SpecChat: one user with up to MaxSessions sessions, a     *)
(* second user with at most one, and getChatHistory with and without a     *)
(* limit.                                                                  *)

MaxSessions == 11
MaxLimit == 2

ChatUsers == {1, 2}

\* The times at which sessions are created.
ChatTimes == {T1, T2}

SessionsOf(u) == Cardinality({r \in chatSessions : r.userId = u})

SessionCap(u) == IF u = 1 THEN MaxSessions ELSE 1

ChatNext ==
    \/ \E u \in ChatUsers, t \in ChatTimes :
          /\ SessionsOf(u) < SessionCap(u)
          /\ createChatSession([userId |-> u], t)
          /\ UNCHANGED hist
    \/ \E u \in ChatUsers, l \in Opt("limit", 0..MaxLimit), tb \in TieBreaks :
          getChatHistory([userId |-> u] @@ l, tb) /\ UNCHANGED hist

SpecChat == Init /\ [][ChatNext]_vars

Min(a, b) == IF a < b THEN a ELSE b

\* C8: getChatHistory(userId, limit) returns min(limit, the number of the
\* user's sessions) sessions, limit being 10 when none is given; each is a
\* session of the user, none twice; they are in descending order of
\* createdAt, and no session left out is newer than one returned.
C8_ChatHistory ==
    ret.op = "getChatHistory" =>
        LET mine  == {r \in chatSessions : r.userId = ret.args.userId}
            limit == IF "limit" \in DOMAIN ret.args THEN ret.args.limit ELSE 10
            got   == Range(ret.rows)
        IN  /\ Len(ret.rows) = Min(limit, Cardinality(mine))
            /\ got \subseteq mine
            /\ Cardinality(got) = Len(ret.rows)
            /\ \A i, j \in DOMAIN ret.rows :
                  i < j => ret.rows[i].createdAt >= ret.rows[j].createdAt
            /\ \A o \in mine \ got, r \in got : o.createdAt <= r.createdAt

\* Witness of C8: a call without a limit on a user with eleven sessions has
\* returned ten, leaving out one older than one it returned, while another
\* user has a session.
C8_Witness ==
    /\ ret.op = "getChatHistory"
    /\ "limit" \notin DOMAIN ret.args
    /\ SessionsOf(ret.args.userId) = 11
    /\ Len(ret.rows) = 10
    /\ \E o \in chatSessions : /\ o.userId = ret.args.userId
                               /\ o \notin Range(ret.rows)
                               /\ o.createdAt < ret.rows[1].createdAt
    /\ \E o \in chatSessions : o.userId # ret.args.userId

\* A second witness of C8's case: limit 2 on a user with more sessions
\* returns the two newest, newest first.
C8_WitnessLimitTwo ==
    /\ ret.op = "getChatHistory"
    /\ "limit" \in DOMAIN ret.args /\ ret.args.limit = 2
    /\ SessionsOf(ret.args.userId) = 5
    /\ Len(ret.rows) = 2
    /\ ret.rows[1].createdAt > ret.rows[2].createdAt

-----------------------------------------------------------------------------
(* Specification SpecConcurrent: two callers, each making one updateCampus *)
(* call, in every interleaving of issuing, executing and returning.        *)

ConcurrentCampusInputs == {[name |-> "North", location |-> Null]}

ConcurrentUpdates ==
    {[name |-> "East"], [name |-> "West"], [location |-> Some("Dale")],
     [name |-> "East", location |-> Some("Hill")]}

ConcurrentNext ==
    \/ \E d \in ConcurrentCampusInputs :
          nextCampusId <= MaxCampuses /\ createCampus(d) /\ UNCHANGED hist
    \/ \E c \in Callers, id \in 1..MaxCampuses, u \in ConcurrentUpdates :
          IssueUpdateCampus(c, id, u) /\ UNCHANGED hist
    \/ \E c \in Callers : ExecUpdateCampus(c) /\ UNCHANGED hist
    \/ \E c \in Callers : ReturnUpdateCampus(c) /\ UNCHANGED hist

SpecConcurrent == Init /\ [][ConcurrentNext]_vars

Completed(c) == calls[c].pc \in {"done", "returned"}

\* Two completed calls on the same row, which existed when each was issued,
\* whose payloads name disjoint sets of columns.
DisjointPair(a, b) ==
    /\ a # b
    /\ Completed(a) /\ Completed(b)
    /\ calls[a].id = calls[b].id
    /\ calls[a].copy # <<>> /\ calls[b].copy # <<>>
    /\ DOMAIN calls[a].updates \cap DOMAIN calls[b].updates = {}

\* C10: when two updateCampus calls on the same existing row supply disjoint
\* sets of columns, then in every interleaving, once both have completed the
\* row holds for each supplied column the value its call supplied.
C10_NoLostUpdate ==
    \A a, b \in Callers :
        DisjointPair(a, b) =>
            \E r \in campuses :
                /\ r.id = calls[a].id
                /\ \A f \in DOMAIN calls[a].updates : r[f] = calls[a].updates[f]
                /\ \A f \in DOMAIN calls[b].updates : r[f] = calls[b].updates[f]

\* Witness of C10: two calls with disjoint payloads that were in flight at
\* the same time have both returned.
C10_Witness ==
    \E a, b \in Callers :
        /\ DisjointPair(a, b)
        /\ calls[a].pc = "returned" /\ calls[b].pc = "returned"
        /\ calls[b].overlaps

=============================================================================
